---- MODULE Spec2Model ----
(***************************************************************************)
(* ISA memory expansion boards (src/src/device/isamem.c): the layout that  *)
(* isamem_init carves out of a board's RAM, the EMS page registers         *)
(* (ems_read / ems_write) and the byte access handlers (ram_readb,         *)
(* ram_writeb, ems_readb, ems_writeb).                                     *)
(*                                                                         *)
(* Pointers into dev->ram are modelled as byte offsets from dev->ram; NULL *)
(* is -1.  The RAM buffer is a sparse function from offsets to bytes: an   *)
(* offset that was never written holds 0 (memset, line 481).  The handlers *)
(* do not check the offset: an access outside the buffer is undefined      *)
(* behaviour, which either faults (the process is killed) or touches the   *)
(* heap next to the buffer; overrun holds the offsets outside the buffer   *)
(* that a store has overwritten.                                           *)
(***************************************************************************)
EXTENDS Integers, Sequences, FiniteSets, TLC

VARIABLES phase, cfg, dev, ram_remapped_mapping, io_handlers, mem_state,
          ram, overrun, last, ops

vars == <<phase, cfg, dev, ram_remapped_mapping, io_handlers, mem_state,
          ram, overrun, last, ops>>

----------------------------------------------------------------------------
(* Program constants.                                                      *)

RAM_TOPMEM == 640 * 1024
RAM_UMAMEM == 384 * 1024
RAM_EXTMEM == 1024 * 1024
EMS_MAXSIZE == 2048 * 1024
EMS_PGSIZE == 16 * 1024
EMS_MAXPAGE == 4

FLAG_CONFIG == 1
FLAG_WIDE == 16
FLAG_FAST == 32
FLAG_EMS == 64

NULL == -1

\* uint32_t arithmetic on a byte count that is a multiple of 1024, kept in
\* KB: 2^32 bytes are 2^22 KB
U32KB(x) == x % 4194304
U16(x) == x % 65536
\* (int8_t) of a byte value, as stored in emsreg_t.enabled
Int8(x) == IF x >= 128 THEN x - 256 ELSE x
\* val & 0x80 and val & 0x7f on a byte
And80(val) == ((val \div 128) % 2) * 128
And7f(val) == val % 128

Min(a, b) == IF a < b THEN a ELSE b

----------------------------------------------------------------------------
(* Bounds of the model.                                                    *)

\* number of spinner steps taken for "size", "start" and "length"
MaxSizeSteps == 5
MaxStartSteps == 8
MaxLengthSteps == 10
\* number of guest operations after attach
MaxOps == 4

----------------------------------------------------------------------------
(* Board catalogue and configuration options.                              *)

\* device_t.local of the boards in boards[]
BoardIds == {0, 1, 2, 3, 10}

\* a CONFIG_SPINNER option { min, max, step }, cut to the first n steps
Spinner(min, max, step, n) ==
    {v \in {min + step * i : i \in 0..n} : v <= max}

ibmxt_config ==
    [size : Spinner(0, 512, 16, MaxSizeSteps),
     start : Spinner(0, 576, 64, MaxStartSteps),
     length : {0}, width : {0}, speed : {0}, ems : {0}, base : {0}]

ibmat_config ==
    [size : Spinner(0, 4096, 512, MaxSizeSteps),
     start : Spinner(0, 16128, 128, MaxStartSteps),
     length : {0}, width : {0}, speed : {0}, ems : {0}, base : {0}]

p5pak_config ==
    [size : Spinner(0, 384, 64, MaxSizeSteps),
     start : Spinner(64, 576, 64, MaxStartSteps),
     length : {0}, width : {0}, speed : {0}, ems : {0}, base : {0}]

ems5150_config ==
    [size : Spinner(0, 2048, 64, MaxSizeSteps),
     start : {0}, length : {0}, width : {0}, speed : {0}, ems : {0},
     base : {0, 520, 522, 524, 526}]

ev159_config ==
    [size : Spinner(0, 3072, 512, MaxSizeSteps),
     start : Spinner(0, 16128, 128, MaxStartSteps),
     length : Spinner(0, 16384, 128, MaxLengthSteps),
     width : {0, 1}, speed : {0, 1}, ems : {0, 1},
     base : {520, 536, 600, 616, 680, 696, 744}]

BoardConfig(local) ==
    CASE local = 0 -> ibmxt_config
      [] local = 1 -> ibmat_config
      [] local = 2 -> p5pak_config
      [] local = 3 -> ems5150_config
      [] local = 10 -> ev159_config

\* every attach the layout specification tries: board, options, host bus
Configs ==
    UNION {[local : {b}, opt : BoardConfig(b), AT : BOOLEAN] : b \in BoardIds}

----------------------------------------------------------------------------
(* The host's memory-mapping primitives (mem.c), as the board uses them.   *)

\* a mem_mapping_t that was never added (memset 0 of the device)
NoMapping ==
    [reg |-> FALSE, base |-> 0, size |-> 0, enable |-> FALSE, exec |-> NULL,
     word |-> FALSE, handler |-> "none", dev |-> 0]

\* mem_mapping_add: the region is registered and enabled
mem_mapping_add(base, size, handler, word, exec) ==
    [reg |-> TRUE, base |-> base, size |-> size, enable |-> (size > 0),
     exec |-> exec, word |-> word, handler |-> handler, dev |-> 0]

\* the device instance (1, 2, ...; 0 is none) that owns the mapping
mem_mapping_set_dev(map, d) == [map EXCEPT !.dev = d]
mem_mapping_set_exec(map, p) == [map EXCEPT !.exec = p]
mem_mapping_enable(map) == [map EXCEPT !.enable = TRUE]
mem_mapping_disable(map) == [map EXCEPT !.enable = FALSE]

----------------------------------------------------------------------------
(* isamem_init.                                                            *)

\* emsreg_t after memset 0
NoEmsReg ==
    [enabled |-> 0, page |-> 0, frame |-> 0, addr |-> NULL,
     mapping |-> NoMapping]

Viewports == 0..(EMS_MAXPAGE - 1)

\* the per-board switch: options read, flags set, RAM length "tot" in KB
BoardInit(local, o) ==
    CASE local \in {0, 2} ->
           [total_size |-> o.size, start_addr |-> o.start, tot |-> o.size,
            base_addr |-> 0, frame_addr |-> 0, flags |-> {}]
      [] local = 1 ->
           [total_size |-> o.size, start_addr |-> o.start, tot |-> o.size,
            base_addr |-> 0, frame_addr |-> 0, flags |-> {FLAG_WIDE}]
      [] local = 3 ->
           [total_size |-> o.size, start_addr |-> 0, tot |-> 0,
            base_addr |-> o.base, frame_addr |-> 851968,
            flags |-> {FLAG_EMS, FLAG_CONFIG}]
      [] local = 10 ->
           [total_size |-> o.size, start_addr |-> o.start, tot |-> o.length,
            base_addr |-> o.base, frame_addr |-> 917504,
            flags |-> (IF o.width # 0 THEN {FLAG_WIDE} ELSE {})
                      \cup (IF o.speed # 0 THEN {FLAG_FAST} ELSE {})
                      \cup (IF o.ems # 0 THEN {FLAG_EMS} ELSE {})]
      [] OTHER ->
           [total_size |-> 0, start_addr |-> 0, tot |-> 0,
            base_addr |-> 0, frame_addr |-> 0, flags |-> {}]

\* "Force (back to) 8-bit bus if needed."
ForceNarrow(AT, flags) ==
    IF (~AT) /\ FLAG_WIDE \in flags THEN flags \ {FLAG_WIDE} ELSE flags

\* (mutant) k is left at the total size
AdjustK_NoSubtract(k, tot) == k

\* "Adjust K for the RAM we will use.": k -= tot, in uint32_t (k, tot in KB)
AdjustK(k, tot) == U32KB(k - tot)

\* (mutant) the branches of the cap are swapped
EmsPoolKB_Swapped(k) ==
    IF k > EMS_MAXSIZE \div 1024 THEN k ELSE EMS_MAXSIZE \div 1024

\* "EMS 3.2 cannot have more than 2048KB per board.": t, in KB, from k in KB
EmsPoolKB(k) == IF k > EMS_MAXSIZE \div 1024 THEN EMS_MAXSIZE \div 1024 ELSE k

\* (mutant) the conventional region is not cut to the bytes that remain
LowSize_Uncut(addr, tot) ==
    IF addr < RAM_TOPMEM THEN RAM_TOPMEM - addr ELSE 0

\* the size t of the conventional region: up to 640KB, "If the board
\* doesn't have that much, grab as much as we can."
LowSize(addr, tot) ==
    LET t == IF addr < RAM_TOPMEM THEN RAM_TOPMEM - addr ELSE 0
    IN  IF t > 0 /\ t > tot THEN tot ELSE t

\* (mutant) the window is also taken when fewer than 384KB remain
RemapCond_AnyRest(addr, tot) == addr = RAM_TOPMEM /\ tot > 0

\* "Skip to high memory if needed."
RemapCond(addr, tot) == addr = RAM_TOPMEM /\ tot >= RAM_UMAMEM

\* whether the extended-memory step runs
HighCond(AT, addr, tot) == AT /\ addr > 0 /\ tot > 0

\* (mutant) every window is put at the frame address
EmsWindowBase_NoIndex(frame_addr, i) == frame_addr

\* the guest address of the window of viewport i
EmsWindowBase(frame_addr, i) == frame_addr + EMS_PGSIZE * i

\* The whole of isamem_init for board c.local with options c.opt on a host
\* whose AT flag is c.AT.  Returns the device, the shared remap mapping, the
\* I/O ports registered and the ranges marked external.  k is kept in KB
\* (it wraps); addr, tot, t and ptr are bytes and stay below 2^26 for every
\* option value, so their uint32_t arithmetic never wraps.  inst names the
\* memdev_t that is allocated.
isamem_init(c, old_remap, inst) ==
    LET b == BoardInit(c.local, c.opt)
        start_addr == b.start_addr * 1024
        flags == ForceNarrow(c.AT, b.flags)
        wide == FLAG_WIDE \in flags
        k0 == b.total_size
        tot0 == b.tot * 1024
        addr0 == start_addr
        carve == addr0 > 0 /\ tot0 > 0
        k1 == IF carve THEN AdjustK(k0, b.tot) ELSE k0
        \* conventional memory
        t1 == LowSize(addr0, tot0)
        doLow == carve /\ t1 > 0
        low == IF doLow
               THEN mem_mapping_set_dev(
                        mem_mapping_add(addr0, t1, "ram", wide, 0), inst)
               ELSE NoMapping
        ptr1 == IF doLow THEN t1 ELSE 0
        tot1 == IF doLow THEN tot0 - t1 ELSE tot0
        addr1 == IF doLow THEN addr0 + t1 ELSE addr0
        \* the 384K that are skipped
        doRemap == carve /\ RemapCond(addr1, tot1)
        remap == IF doRemap
                 THEN mem_mapping_disable(mem_mapping_set_dev(
                          mem_mapping_set_exec(
                              mem_mapping_add(addr1 + tot1, RAM_UMAMEM,
                                              "ram", TRUE, ptr1),
                              ptr1), inst))
                 ELSE old_remap
        ptr2 == IF doRemap THEN ptr1 + RAM_UMAMEM ELSE ptr1
        tot2 == IF doRemap THEN tot1 - RAM_UMAMEM ELSE tot1
        addr2 == IF doRemap THEN addr1 + RAM_UMAMEM ELSE addr1
        \* extended memory
        doHigh == HighCond(c.AT, addr2, tot2)
        high == IF doHigh
                THEN mem_mapping_set_dev(
                         mem_mapping_add(addr2, tot2, "ram", TRUE, ptr2),
                         inst)
                ELSE NoMapping
        ptr3 == IF doHigh THEN ptr2 + tot2 ELSE ptr2
        \* EMS
        doEms == FLAG_EMS \in flags
        t4 == EmsPoolKB(k1)
        ems == [i \in Viewports |->
                  IF doEms
                  THEN [NoEmsReg EXCEPT !.mapping =
                          mem_mapping_disable(mem_mapping_set_dev(
                              mem_mapping_add(
                                  EmsWindowBase(b.frame_addr, i),
                                  EMS_PGSIZE, "ems", wide, ptr3), inst))]
                  ELSE NoEmsReg]
    IN  [dev |->
           [inst |-> inst, board |-> c.local, flags |-> flags,
            total_size |-> b.total_size, base_addr |-> b.base_addr,
            start_addr |-> start_addr, frame_addr |-> b.frame_addr,
            ems_size |-> IF doEms THEN U16(t4) ELSE 0,
            ems_pages |-> IF doEms THEN U16(t4 \div (EMS_PGSIZE \div 1024)) ELSE 0,
            ems_start |-> IF doEms THEN ptr3 ELSE 0,
            ram_size |-> b.total_size * 1024,
            low_mapping |-> low, high_mapping |-> high, ems |-> ems],
         remap |-> remap,
         remap_owned |-> doRemap,
         io |-> IF doEms
                THEN {U16(b.base_addr + EMS_PGSIZE * i + j) :
                         i \in Viewports, j \in {0, 1}}
                ELSE {},
         ext |-> (IF doLow THEN {<<addr0, t1>>} ELSE {})
                 \cup (IF doRemap THEN {<<addr1 + tot1, RAM_UMAMEM>>}
                       ELSE {})
                 \cup (IF doHigh THEN {<<addr2, tot2>>} ELSE {})]

\* the device before it is attached
NoDev ==
    [inst |-> 0, board |-> 0, flags |-> {}, total_size |-> 0, base_addr |-> 0,
     start_addr |-> 0, frame_addr |-> 0, ems_size |-> 0, ems_pages |-> 0,
     ems_start |-> 0, ram_size |-> 0,
     low_mapping |-> NoMapping, high_mapping |-> NoMapping,
     ems |-> [i \in Viewports |-> NoEmsReg]]

----------------------------------------------------------------------------
(* The EMS page registers.                                                 *)

\* (mutant) off by one: the page after the last one passes
PageExists_OffByOne(page, ems_pages) == page <= ems_pages

\* "Make sure we can do that..": the page exists in the EMS pool
PageExists(page, ems_pages) == page < ems_pages

\* (mutant) the page number is not scaled by the page size
PageAddr_Unscaled(ems_start, val) == ems_start + And7f(val)

\* "Pre-calculate the page address in EMS RAM."
PageAddr(ems_start, val) == ems_start + And7f(val) * EMS_PGSIZE

\* the enabled field as ems_write first stores it: (int8_t)(val & 0x80)
EnableBit(val) == Int8(And80(val))

\* the register of viewport vpage once "Set the page number." has stored
\* the two fields
PageSet(d, vpage, val) ==
    [d.ems[vpage] EXCEPT !.enabled = EnableBit(val), !.page = And7f(val)]

\* the register once a configured board has tested the page
PageLatch(d, vpage, val) ==
    LET e1 == PageSet(d, vpage, val)
    IN  IF PageExists(e1.page, d.ems_pages)
        THEN [e1 EXCEPT !.addr = PageAddr(d.ems_start, val)]
        ELSE [e1 EXCEPT !.enabled = 0]

\* (mutant) the window is disabled before it is rebound and enabled
PageSelectCalls_Pulse(d, vpage, val) ==
    IF FLAG_CONFIG \notin d.flags THEN <<>>
    ELSE IF PageLatch(d, vpage, val).enabled # 0
         THEN <<"disable", "set_exec", "enable">>
         ELSE <<"disable">>

\* the calls case 0x0000 makes on the viewport's mapping, in order
PageSelectCalls(d, vpage, val) ==
    IF FLAG_CONFIG \notin d.flags THEN <<>>
    ELSE IF PageLatch(d, vpage, val).enabled # 0
         THEN <<"set_exec", "enable">>
         ELSE <<"disable">>

\* one call on a mapping; p is the pointer set_exec is given
ApplyCall(map, call, p) ==
    CASE call = "set_exec" -> mem_mapping_set_exec(map, p)
      [] call = "enable" -> mem_mapping_enable(map)
      [] call = "disable" -> mem_mapping_disable(map)

RECURSIVE ApplyCalls(_, _, _)
ApplyCalls(map, calls, p) ==
    IF calls = <<>> THEN map
    ELSE ApplyCalls(ApplyCall(map, Head(calls), p), Tail(calls), p)

\* (mutant) a page that does not exist, or a clear bit 7, leaves the
\* window as it was
PageSelect_NoDisable(d, vpage, val) ==
    LET e2 == PageLatch(d, vpage, val)
        e3 == IF e2.enabled # 0
              THEN [e2 EXCEPT !.mapping =
                      ApplyCalls(@, PageSelectCalls(d, vpage, val), e2.addr)]
              ELSE e2
    IN  [d EXCEPT !.ems[vpage] =
           IF FLAG_CONFIG \in d.flags THEN e3 ELSE PageSet(d, vpage, val)]

\* case 0x0000 of ems_write: the page mapping register of viewport vpage
PageSelect(d, vpage, val) ==
    LET e2 == PageLatch(d, vpage, val)
        e3 == [e2 EXCEPT !.mapping =
                 ApplyCalls(@, PageSelectCalls(d, vpage, val), e2.addr)]
    IN  [d EXCEPT !.ems[vpage] =
           IF FLAG_CONFIG \in d.flags THEN e3 ELSE PageSet(d, vpage, val)]

\* (mutant) every write to the register configures the board
FrameConfig_Always(d, vpage, val) ==
    [d EXCEPT !.ems[vpage].frame = val, !.flags = @ \cup {FLAG_CONFIG}]

\* case 0x0001 of ems_write: the page frame register of viewport vpage
FrameConfig(d, vpage, val) ==
    [d EXCEPT !.ems[vpage].frame = val,
              !.flags = IF val # 0 THEN @ \cup {FLAG_CONFIG} ELSE @]

\* (mutant) the viewport is taken from the port after it was masked
PortPage_Masked(port) == (port % EMS_PGSIZE) \div EMS_PGSIZE

\* the viewport and the register a port decodes to
PortPage(port) == port \div EMS_PGSIZE
PortReg(d, port) == (port % EMS_PGSIZE) - d.base_addr

ems_write(d, port, val) ==
    CASE PortReg(d, port) = 0 -> PageSelect(d, PortPage(port), val)
      [] PortReg(d, port) = 1 -> FrameConfig(d, PortPage(port), val)
      [] OTHER -> d

\* the calls ems_write makes on the mapping of the viewport it decodes
ems_write_calls(d, port, val) ==
    IF PortReg(d, port) = 0 THEN PageSelectCalls(d, PortPage(port), val)
    ELSE <<>>

ems_read(d, port) ==
    CASE PortReg(d, port) = 0 ->
           IF d.ems[PortPage(port)].enabled # 0
           THEN d.ems[PortPage(port)].page + 128 - And80(d.ems[PortPage(port)].page)
           ELSE d.ems[PortPage(port)].page
      [] OTHER -> 255

----------------------------------------------------------------------------
(* Byte access to the board's RAM.                                         *)

\* p + n for a pointer p into dev->ram
PtrAdd(p, n) == IF p = NULL THEN NULL ELSE p + n

\* the offset from dev->ram that ram_readb / ram_writeb touch
RamOffset(map, addr) == addr - map.base

\* the offset from dev->ram that ems_readb / ems_writeb touch
EmsOffset(d, map, addr) ==
    PtrAdd(d.ems[(addr % 65536) \div EMS_PGSIZE].addr, addr - map.base)

\* the handler the host calls for a mapping
HandlerOffset(d, map, addr) ==
    IF map.handler = "ems" THEN EmsOffset(d, map, addr)
    ELSE RamOffset(map, addr)

\* the offset lies inside the malloc'ed buffer
InBuffer(d, off) == off >= 0 /\ off < d.ram_size

\* the byte the buffer holds at an offset
RamAt(r, off) == IF off \in DOMAIN r THEN r[off] ELSE 0

\* the bytes and the word the guest stores (0x5a, 0xa5; 0xa55a)
ByteVals == {90, 165}
WordVals == {42330}

\* the values a byte of the heap outside the buffer can hold
HeapBytes == 0..255

\* the bytes a load of one byte can find at an offset: the byte stored, or,
\* outside the buffer, whatever the heap holds there
BytesAt(d, r, off) ==
    IF InBuffer(d, off) THEN {RamAt(r, off)} ELSE HeapBytes

\* the buffer with one byte replaced (an offset outside it is not part of
\* the buffer)
Poke(d, r, off, val) ==
    IF InBuffer(d, off)
    THEN [o \in (DOMAIN r) \cup {off} |-> IF o = off THEN val ELSE r[o]]
    ELSE r

\* the outcomes of a byte load: inside the buffer the byte stored; outside
\* it the access faults or returns what the heap holds
LoadOutcomes(d, r, off) ==
    {[fault |-> FALSE, ret |-> v] : v \in BytesAt(d, r, off)}
    \cup (IF InBuffer(d, off) THEN {} ELSE {[fault |-> TRUE, ret |-> -1]})

\* the outcomes of a byte store (h: the offsets overwritten outside the
\* buffer so far): inside the buffer the byte is stored; outside it the
\* access faults or overwrites the heap there
Store(d, r, h, off, val) ==
    IF InBuffer(d, off)
    THEN {[fault |-> FALSE, ram |-> Poke(d, r, off, val), overrun |-> h]}
    ELSE {[fault |-> TRUE, ram |-> r, overrun |-> h],
          [fault |-> FALSE, ram |-> r, overrun |-> h \cup {off}]}

\* the outcomes of a 16-bit load, *(uint16_t *): the byte at off is the low
\* byte, the byte at off + 1 the high byte
LoadWOutcomes(d, r, off) ==
    {[fault |-> FALSE, ret |-> lo + 256 * hi] :
        lo \in BytesAt(d, r, off), hi \in BytesAt(d, r, off + 1)}
    \cup (IF InBuffer(d, off) /\ InBuffer(d, off + 1) THEN {}
          ELSE {[fault |-> TRUE, ret |-> -1]})

\* the outcomes of a 16-bit store
StoreW(d, r, h, off, val) ==
    LET done == [fault |-> FALSE,
                 ram |-> Poke(d, Poke(d, r, off, val % 256),
                              off + 1, val \div 256),
                 overrun |-> h \cup {o \in {off, off + 1} : ~InBuffer(d, o)}]
    IN  IF InBuffer(d, off) /\ InBuffer(d, off + 1) THEN {done}
        ELSE {[fault |-> TRUE, ram |-> r, overrun |-> h], done}

----------------------------------------------------------------------------
(* State.                                                                   *)

MapIds == {"low", "high", "remap", "ems0", "ems1", "ems2", "ems3"}

EmsMapId(i) ==
    CASE i = 0 -> "ems0" [] i = 1 -> "ems1" [] i = 2 -> "ems2" [] i = 3 -> "ems3"

\* the mem_mapping_t a name stands for
MapOf(d, remap, id) ==
    CASE id = "low" -> d.low_mapping
      [] id = "high" -> d.high_mapping
      [] id = "remap" -> remap
      [] id = "ems0" -> d.ems[0].mapping
      [] id = "ems1" -> d.ems[1].mapping
      [] id = "ems2" -> d.ems[2].mapping
      [] id = "ems3" -> d.ems[3].mapping

NoCfg ==
    [local |-> 0,
     opt |-> [size |-> 0, start |-> 0, length |-> 0, width |-> 0,
              speed |-> 0, ems |-> 0, base |-> 0],
     AT |-> FALSE]

\* the record of the operation that ran last; pre_enable is the enable
\* state the written viewport's window had before a register write, calls
\* the calls the write made on that window; pw_* is the byte store that ran
\* immediately before a byte load
NoOp ==
    [op |-> "none", port |-> -1, map |-> "none", addr |-> -1, val |-> -1,
     ret |-> -1, off |-> -1, oob |-> FALSE, fault |-> FALSE,
     pre_enable |-> FALSE, calls |-> <<>>,
     pw_map |-> "none", pw_addr |-> -1, pw_val |-> -1, pw_off |-> -1]

Init ==
    /\ phase = "none"
    /\ cfg = NoCfg
    /\ dev = NoDev
    /\ ram_remapped_mapping = NoMapping
    /\ io_handlers = {}
    /\ mem_state = {}
    /\ ram = <<>>
    /\ overrun = {}
    /\ last = NoOp
    /\ ops = 0

----------------------------------------------------------------------------
(* Operations.                                                             *)

\* device_add_inst -> isamem_init with one of the configurations in C
AttachFrom(C) ==
    /\ phase = "none"
    /\ \E c \in C :
         LET r == isamem_init(c, ram_remapped_mapping, 1)
         IN  /\ cfg' = c
             /\ dev' = r.dev
             /\ ram_remapped_mapping' = r.remap
             /\ io_handlers' = r.io
             /\ mem_state' = r.ext
    /\ phase' = "attached"
    /\ ram' = <<>>
    /\ overrun' = {}
    /\ last' = [NoOp EXCEPT !.op = "attach"]
    /\ ops' = 0

\* device_add_inst for the next board of isamem_reset: a second instance
\* attaches next to the first.  From here on dev, cfg and ram are those of
\* the second instance; of the first, what it registered with the host
\* stays.
AttachSecond ==
    /\ phase = "attached"
    /\ dev.inst = 1
    /\ \E c \in Configs :
         LET r == isamem_init(c, ram_remapped_mapping, dev.inst + 1)
         IN  /\ cfg' = c
             /\ dev' = r.dev
             /\ ram_remapped_mapping' = r.remap
             /\ io_handlers' = io_handlers \cup r.io
             /\ mem_state' = mem_state \cup r.ext
    /\ ram' = <<>>
    /\ overrun' = {}
    /\ last' = [NoOp EXCEPT !.op = "attach"]
    /\ UNCHANGED <<phase, ops>>

\* the viewports whose registers the guest drives
GuestViewports == {0, 2}

GuestPorts == {p \in io_handlers : PortPage(p) \in GuestViewports}

\* values the guest writes to a page mapping register (0x05, 0x28, 0x80,
\* 0x85, 0xa8) and to a page frame register (0x00, 0x80)
PortVals(port) ==
    IF PortReg(dev, port) = 0 THEN {5, 40, 128, 133, 168} ELSE {0, 128}

\* 0xa7 for a page mapping register: page 39, the last page of a 40-page
\* pool, enabled
LastPageVals == {167}

\* the guest writes a byte to one of the board's I/O ports: one of
\* PortVals(port) or, to a page mapping register, one of pagevals
EmsWriteFrom(pagevals) ==
    /\ phase = "attached"
    /\ ops < MaxOps
    /\ \E port \in GuestPorts :
       \E val \in PortVals(port)
                    \cup (IF PortReg(dev, port) = 0 THEN pagevals ELSE {}) :
         /\ dev' = ems_write(dev, port, val)
         /\ last' = [NoOp EXCEPT !.op = "ems_write", !.port = port,
                                 !.val = val,
                                 !.pre_enable =
                                     dev.ems[PortPage(port)].mapping.enable,
                                 !.calls = ems_write_calls(dev, port, val)]
    /\ ops' = ops + 1
    /\ UNCHANGED <<phase, cfg, ram_remapped_mapping, io_handlers, mem_state,
                   ram, overrun>>

EmsWrite == EmsWriteFrom({})
EmsWriteLast == EmsWriteFrom(LastPageVals)

\* the guest reads a byte from one of the board's I/O ports
EmsRead ==
    /\ phase = "attached"
    /\ ops < MaxOps
    /\ \E port \in GuestPorts :
         last' = [NoOp EXCEPT !.op = "ems_read", !.port = port,
                              !.ret = ems_read(dev, port)]
    /\ ops' = ops + 1
    /\ UNCHANGED <<phase, cfg, dev, ram_remapped_mapping, io_handlers,
                   mem_state, ram, overrun>>

\* the guest addresses the host dispatches to mapping id: its first and
\* its last byte
ProbeAddrs(map) == {map.base, map.base + map.size - 1}

Dispatched(id) ==
    /\ MapOf(dev, ram_remapped_mapping, id).reg
    /\ MapOf(dev, ram_remapped_mapping, id).enable

\* the process after an access: a fault kills it
AfterAccess(fault) == IF fault THEN "crashed" ELSE phase

\* the guest stores a byte at an address of an enabled mapping
\* (ram_writeb / ems_writeb)
MemWriteB ==
    /\ phase = "attached"
    /\ ops < MaxOps
    /\ \E id \in MapIds :
         /\ Dispatched(id)
         /\ LET map == MapOf(dev, ram_remapped_mapping, id)
            IN  \E addr \in ProbeAddrs(map), val \in ByteVals :
                  LET off == HandlerOffset(dev, map, addr)
                  IN  \E out \in Store(dev, ram, overrun, off, val) :
                        /\ ram' = out.ram
                        /\ overrun' = out.overrun
                        /\ phase' = AfterAccess(out.fault)
                        /\ last' = [NoOp EXCEPT !.op = "writeb", !.map = id,
                                       !.addr = addr, !.val = val,
                                       !.off = off, !.fault = out.fault,
                                       !.oob = ~InBuffer(dev, off)]
    /\ ops' = ops + 1
    /\ UNCHANGED <<cfg, dev, ram_remapped_mapping, io_handlers, mem_state>>

\* the guest loads a byte from an address of an enabled mapping
\* (ram_readb / ems_readb)
MemReadB ==
    /\ phase = "attached"
    /\ ops < MaxOps
    /\ \E id \in MapIds :
         /\ Dispatched(id)
         /\ LET map == MapOf(dev, ram_remapped_mapping, id)
            IN  \E addr \in ProbeAddrs(map) :
                  LET off == HandlerOffset(dev, map, addr)
                  IN  \E out \in LoadOutcomes(dev, ram, off) :
                        /\ phase' = AfterAccess(out.fault)
                        /\ last' =
                             [NoOp EXCEPT !.op = "readb", !.map = id,
                                    !.addr = addr, !.ret = out.ret,
                                    !.off = off, !.fault = out.fault,
                                    !.oob = ~InBuffer(dev, off),
                                    !.pw_map = IF last.op = "writeb"
                                               THEN last.map ELSE "none",
                                    !.pw_addr = IF last.op = "writeb"
                                                THEN last.addr ELSE -1,
                                    !.pw_val = IF last.op = "writeb"
                                               THEN last.val ELSE -1,
                                    !.pw_off = IF last.op = "writeb"
                                               THEN last.off ELSE -1]
    /\ ops' = ops + 1
    /\ UNCHANGED <<cfg, dev, ram_remapped_mapping, io_handlers, mem_state,
                   ram, overrun>>

\* the guest addresses of a 16-bit access to a mapping: its first word, and
\* the word that starts at the last byte of the mapping or, when the buffer
\* is shorter than the mapping, at the last byte the buffer backs
ProbeAddrsW(d, map) ==
    {a \in {map.base, map.base + Min(map.size, d.ram_size) - 1} :
        a >= map.base /\ a < map.base + map.size}

\* the guest stores a word at an address of an enabled mapping that has
\* word handlers (ram_writew / ems_writew)
MemWriteW ==
    /\ phase = "attached"
    /\ ops < MaxOps
    /\ \E id \in MapIds :
         /\ Dispatched(id)
         /\ MapOf(dev, ram_remapped_mapping, id).word
         /\ LET map == MapOf(dev, ram_remapped_mapping, id)
            IN  \E addr \in ProbeAddrsW(dev, map), val \in WordVals :
                  LET off == HandlerOffset(dev, map, addr)
                  IN  \E out \in StoreW(dev, ram, overrun, off, val) :
                        /\ ram' = out.ram
                        /\ overrun' = out.overrun
                        /\ phase' = AfterAccess(out.fault)
                        /\ last' = [NoOp EXCEPT !.op = "writew", !.map = id,
                                       !.addr = addr, !.val = val,
                                       !.off = off, !.fault = out.fault,
                                       !.oob = ~(InBuffer(dev, off)
                                                 /\ InBuffer(dev, off + 1))]
    /\ ops' = ops + 1
    /\ UNCHANGED <<cfg, dev, ram_remapped_mapping, io_handlers, mem_state>>

\* the guest loads a word from an address of an enabled mapping that has
\* word handlers (ram_readw / ems_readw)
MemReadW ==
    /\ phase = "attached"
    /\ ops < MaxOps
    /\ \E id \in MapIds :
         /\ Dispatched(id)
         /\ MapOf(dev, ram_remapped_mapping, id).word
         /\ LET map == MapOf(dev, ram_remapped_mapping, id)
            IN  \E addr \in ProbeAddrsW(dev, map) :
                  LET off == HandlerOffset(dev, map, addr)
                  IN  \E out \in LoadWOutcomes(dev, ram, off) :
                        /\ phase' = AfterAccess(out.fault)
                        /\ last' = [NoOp EXCEPT !.op = "readw", !.map = id,
                                       !.addr = addr, !.ret = out.ret,
                                       !.off = off, !.fault = out.fault,
                                       !.oob = ~(InBuffer(dev, off)
                                                 /\ InBuffer(dev, off + 1))]
    /\ ops' = ops + 1
    /\ UNCHANGED <<cfg, dev, ram_remapped_mapping, io_handlers, mem_state,
                   ram, overrun>>

\* system software enables the shared remap window
RemapEnable ==
    /\ phase = "attached"
    /\ ops < MaxOps
    /\ ram_remapped_mapping.reg
    /\ ~ram_remapped_mapping.enable
    /\ ram_remapped_mapping' = mem_mapping_enable(ram_remapped_mapping)
    /\ last' = [NoOp EXCEPT !.op = "remap_enable"]
    /\ ops' = ops + 1
    /\ UNCHANGED <<phase, cfg, dev, io_handlers, mem_state, ram, overrun>>

\* isamem_close: the port handlers are removed, the RAM and the device
\* are freed; no mapping is removed
isamem_close(d, io) ==
    [io |-> IF FLAG_EMS \in d.flags
            THEN io \ {U16(d.base_addr + EMS_PGSIZE * i + j) :
                          i \in Viewports, j \in {0, 1}}
            ELSE io]

Close ==
    /\ phase = "attached"
    /\ io_handlers' = isamem_close(dev, io_handlers).io
    /\ phase' = "closed"
    /\ ram' = <<>>
    /\ last' = [NoOp EXCEPT !.op = "close"]
    /\ UNCHANGED <<cfg, dev, ram_remapped_mapping, mem_state, overrun, ops>>

----------------------------------------------------------------------------
(* Specifications.                                                         *)

Cfg(local, size, start, length, width, ems, base, at) ==
    [local |-> local,
     opt |-> [size |-> size, start |-> start, length |-> length,
              width |-> width, speed |-> 0, ems |-> ems, base |-> base],
     AT |-> at]

\* the boards the guest operations are explored on; their layouts lie
\* inside the buffer
RunConfigs ==
    { Cfg(3, 512, 0, 0, 0, 0, 520, FALSE),
      Cfg(10, 1024, 256, 384, 1, 1, 600, TRUE),
      Cfg(1, 1024, 512, 0, 0, 0, 0, TRUE) }

\* boards whose accesses leave the buffer: one whose contiguous length
\* exceeds its size, so that its EMS pool lies outside the buffer, and a
\* 16-bit one whose EMS pool ends where the buffer ends, so that a word at
\* the last byte of its last page has its high byte outside
OverrunConfigs ==
    { Cfg(10, 512, 256, 1024, 0, 1, 600, FALSE),
      Cfg(10, 1024, 256, 384, 1, 1, 600, TRUE) }

AttachRun == AttachFrom(RunConfigs)
AttachAny == AttachFrom(Configs)
AttachOverrun == AttachFrom(OverrunConfigs)

Next ==
    \/ AttachRun
    \/ EmsWrite
    \/ EmsRead
    \/ MemWriteB
    \/ MemReadB
    \/ MemWriteW
    \/ MemReadW
    \/ RemapEnable
    \/ Close

Spec == Init /\ [][Next]_vars

NextLayout ==
    \/ AttachAny
    \/ Close

SpecLayout == Init /\ [][NextLayout]_vars

\* the guest operations on the boards whose accesses leave the buffer
NextOverrun ==
    \/ AttachOverrun
    \/ EmsWriteLast
    \/ EmsRead
    \/ MemWriteB
    \/ MemReadB
    \/ MemWriteW
    \/ MemReadW
    \/ RemapEnable
    \/ Close

SpecOverrun == Init /\ [][NextOverrun]_vars

\* two boards attach one after the other
NextBoards ==
    \/ AttachRun
    \/ AttachSecond

SpecBoards == Init /\ [][NextBoards]_vars

----------------------------------------------------------------------------
(* Properties of the page registers.                                       *)

Configured == FLAG_CONFIG \in dev.flags

\* the last operation wrote val to the page mapping register of viewport i
PageSelectWritten(i, val) ==
    /\ last.op = "ems_write"
    /\ PortReg(dev, last.port) = 0
    /\ PortPage(last.port) = i
    /\ last.val = val

\* C1: on a configured board, a page_select write of v with
\* p = v & 0x7f < ems_pages leaves the viewport with selected_page = p, its
\* window enabled iff bit 7 of v is set and, when enabled, the window's
\* backing pointer at ems_start + p * 16384.
C1_PageSelectValidPage ==
    \A i \in Viewports : \A v \in {last.val} \cap (0..255) :
        (PageSelectWritten(i, v) /\ Configured
             /\ And7f(v) < dev.ems_pages)
        => /\ dev.ems[i].page = And7f(v)
           /\ dev.ems[i].mapping.enable <=> (And80(v) # 0)
           /\ dev.ems[i].mapping.enable =>
                dev.ems[i].mapping.exec
                    = dev.ems_start + And7f(v) * EMS_PGSIZE

\* C1 witness: a window that was enabled on page 0 and was still enabled is
\* disabled again by a write of 0x05 on a configured board.
C1_Witness ==
    /\ PageSelectWritten(2, 5)
    /\ Configured
    /\ last.pre_enable
    /\ dev.ems[2].page = 5
    /\ ~dev.ems[2].mapping.enable
    /\ dev.ems[2].mapping.exec = dev.ems_start

\* C2: on a configured board, a page_select write whose page p >= ems_pages
\* leaves the viewport disabled (flag clear, window disabled) with
\* selected_page = p.
C2_PageSelectInvalidPage ==
    \A i \in Viewports : \A v \in {last.val} \cap (0..255) :
        (PageSelectWritten(i, v) /\ Configured
             /\ And7f(v) >= dev.ems_pages)
        => /\ dev.ems[i].enabled = 0
           /\ ~dev.ems[i].mapping.enable
           /\ dev.ems[i].page = And7f(v)

\* C2 witness: an enabled window is written 0xa8 (page 40, enable requested)
\* on a configured board with 40 pages and ends up disabled.
C2_Witness ==
    /\ PageSelectWritten(0, 168)
    /\ Configured
    /\ dev.ems_pages = 40
    /\ last.pre_enable
    /\ ~dev.ems[0].mapping.enable
    /\ dev.ems[0].page = 40

\* C3 (as claimed): a read of viewport i's page_select register returns
\* selected_page with bit 7 set iff viewport i's window is enabled.
C3_ReadBackMatchesWindow ==
    \A i \in Viewports :
        (last.op = "ems_read" /\ PortReg(dev, last.port) = 0
             /\ PortPage(last.port) = i)
        => last.ret = dev.ems[i].page
                      + (IF dev.ems[i].mapping.enable THEN 128 ELSE 0)

\* C4 (as claimed): a viewport's enabled flag is set only if the board is
\* configured and selected_page < ems_pages.
C4_EnabledOnlyIfConfigured ==
    \A i \in Viewports :
        dev.ems[i].enabled # 0
        => Configured /\ dev.ems[i].page < dev.ems_pages

----------------------------------------------------------------------------
(* Properties of the byte access handlers.                                 *)

PlainIds == {"low", "high", "remap"}

\* C5 (as claimed): a byte stored at an address of an enabled plain region
\* or viewport window and loaded from the same address by the next
\* operation comes back unchanged.
C5_RoundTrip ==
    (last.op = "readb" /\ last.pw_map = last.map
         /\ last.pw_addr = last.addr)
    => last.ret = last.pw_val

\* C6 (as claimed): the plain regions and the EMS pool are backed by
\* disjoint slices of ram, so a store through one plain region does not
\* change what a load through another mapping returns: with that store the
\* only one made so far, the load (inside the buffer) still returns 0.
C6_DisjointSlices ==
    (last.op = "readb" /\ last.pw_map \in PlainIds
         /\ last.pw_map # last.map /\ ~last.oob
         /\ DOMAIN ram = {last.pw_off})
    => last.ret = 0

----------------------------------------------------------------------------
(* Properties of the layout isamem_init builds.                            *)

Attached == phase = "attached"

Registered(id) == MapOf(dev, ram_remapped_mapping, id).reg

\* the guest addresses [base, base + size) of two mappings do not meet
Disjoint(m1, m2) ==
    \/ m1.base + m1.size <= m2.base
    \/ m2.base + m2.size <= m1.base

\* bytes of ram handed to a mapping (0 when it is not registered)
Carved(id) ==
    IF Registered(id) THEN MapOf(dev, ram_remapped_mapping, id).size ELSE 0

CarvedBytes == Carved("low") + Carved("remap") + Carved("high")

\* the configured length of contiguous RAM, in KB ("tot" of isamem_init)
RamLengthKB == BoardInit(cfg.local, cfg.opt).tot

\* C7 (as claimed): the guest address ranges registered at attach
\* (conventional extension, remap window, extended memory, the four
\* viewport windows) are pairwise disjoint.
C7_RangesDisjoint ==
    Attached =>
        \A a \in MapIds : \A b \in MapIds \ {a} :
            (Registered(a) /\ Registered(b))
            => Disjoint(MapOf(dev, ram_remapped_mapping, a),
                        MapOf(dev, ram_remapped_mapping, b))

\* C8 (as claimed): the region sizes and the EMS pool sum to at most the
\* size of the buffer, and the pool lies inside the buffer.
C8_PoolInsideBuffer ==
    Attached =>
        /\ CarvedBytes + dev.ems_pages * EMS_PGSIZE <= dev.ram_size
        /\ dev.ems_start + dev.ems_pages * EMS_PGSIZE <= dev.ram_size

\* C9 (as claimed): with EMS enabled, ems_pages is the number of whole
\* pages in min(bytes of ram not assigned to a region, 2048 KB), and with
\* no region carved ems_start = 0.
C9_PoolIsLeftover ==
    (Attached /\ FLAG_EMS \in dev.flags)
    => /\ dev.ems_pages
            = Min(dev.ram_size - CarvedBytes, EMS_MAXSIZE) \div EMS_PGSIZE
       /\ CarvedBytes = 0 => dev.ems_start = 0

\* the pool isamem_init computes, in KB: the total size less the configured
\* length (modulo 2^32 bytes) when both start and length are nonzero, the
\* total size otherwise
PoolKB ==
    IF dev.start_addr > 0 /\ RamLengthKB > 0
    THEN (dev.total_size - RamLengthKB) % 4194304
    ELSE dev.total_size

\* C9 (amended): with EMS enabled, ems_pages = floor(min(pool, 2048 KB) /
\* 16 KB) where pool is the total size minus the configured contiguous
\* length (in 32-bit unsigned arithmetic) when start and length are both
\* nonzero and the total size otherwise; ems_start is the number of bytes
\* assigned to the regions, so 0 when start or length is 0.
C9_PoolIsSizeMinusLength ==
    (Attached /\ FLAG_EMS \in dev.flags)
    => /\ dev.ems_pages = Min(PoolKB, 2048) \div 16
       /\ dev.ems_start = CarvedBytes
       /\ (dev.start_addr = 0 \/ RamLengthKB = 0) => dev.ems_start = 0

\* C9 witness: 1024 KB, start 256 KB, length 512 KB, no AT bus: 384 KB are
\* carved, 640 KB are left over, and the pool has (1024 - 512) / 16 pages.
C9_Witness ==
    /\ Attached
    /\ FLAG_EMS \in dev.flags
    /\ dev.total_size = 1024
    /\ dev.start_addr = 256 * 1024
    /\ RamLengthKB = 512
    /\ CarvedBytes = 384 * 1024
    /\ dev.ems_pages = 32

ScenarioA ==
    /\ Attached
    /\ dev.total_size = 1024
    /\ dev.start_addr = 256 * 1024
    /\ ~cfg.AT

ScenarioAResult ==
    /\ dev.low_mapping.reg
    /\ dev.low_mapping.handler = "ram"
    /\ dev.low_mapping.base = 262144
    /\ dev.low_mapping.base + dev.low_mapping.size = 655360
    /\ ~dev.high_mapping.reg
    /\ FLAG_EMS \in dev.flags
         => (dev.ems_pages = 40 /\ dev.ems_size = 640)

\* C10 (as claimed): 1024 KB at start 256 KB without AT bus registers the
\* conventional extension [262144, 655360), no extended region and, with
\* EMS enabled, a pool of 640 KB with ems_pages = 40.
C10_ScenarioA == ScenarioA => ScenarioAResult

\* C10 (amended): the same, for a configured contiguous length of 384 KB.
C10_ScenarioALength384 ==
    (ScenarioA /\ RamLengthKB = 384) => ScenarioAResult

\* C10 witness: scenario A with length 384 KB and EMS enabled.
C10_Witness ==
    /\ ScenarioA
    /\ RamLengthKB = 384
    /\ FLAG_EMS \in dev.flags
    /\ dev.ems_pages = 40
    /\ dev.ems_start = 393216

----------------------------------------------------------------------------
(* C11: the viewport windows after attach.                                  *)

\* Scenario B: the EMS-capable board with 512KB, start address 0, EMS on
ScenarioB ==
    /\ cfg.local = 10
    /\ cfg.opt.size = 512
    /\ cfg.opt.start = 0
    /\ cfg.opt.ems = 1

\* the window of viewport i is registered, 16KB at frame_addr + i*16384,
\* and disabled, and the viewport's register is Disabled with page 0
WindowAfterAttach(i) ==
    /\ dev.ems[i].mapping.reg
    /\ dev.ems[i].mapping.handler = "ems"
    /\ dev.ems[i].mapping.base = dev.frame_addr + i * 16384
    /\ dev.ems[i].mapping.size = 16384
    /\ ~dev.ems[i].mapping.enable
    /\ dev.ems[i].enabled = 0
    /\ dev.ems[i].page = 0

\* C11: right after attach of a board with EMS enabled, the four viewport
\* windows are registered at frame_addr + i*16384 (i = 0..3), 16KB each and
\* disabled, whatever ems_pages is (0 included), and every viewport is
\* Disabled with page 0; in scenario B ems_pages = 32 and the windows are at
\* 0xE0000, 0xE4000, 0xE8000 and 0xEC000.
C11_ViewportWindows ==
    (Attached /\ last.op = "attach" /\ FLAG_EMS \in dev.flags) =>
        /\ \A i \in Viewports : WindowAfterAttach(i)
        /\ Cardinality({dev.ems[i].mapping.base : i \in Viewports}) = 4
        /\ ScenarioB =>
             /\ dev.ems_pages = 32
             /\ dev.ems_start = 0
             /\ <<dev.ems[0].mapping.base, dev.ems[1].mapping.base,
                  dev.ems[2].mapping.base, dev.ems[3].mapping.base>>
                = <<917504, 933888, 950272, 966656>>

\* scenario B was attached: 32 pages, the last window at 0xEC000, disabled
C11_Witness ==
    /\ Attached
    /\ last.op = "attach"
    /\ ScenarioB
    /\ dev.ems_pages = 32
    /\ dev.ems[3].mapping.reg
    /\ dev.ems[3].mapping.base = 966656
    /\ ~dev.ems[3].mapping.enable

----------------------------------------------------------------------------
(* C12: the extended-memory region.                                         *)

\* C12: an extended-memory region is registered only on an AT host and only
\* with bytes remaining, and its whole range lies at or above 1MB: it is
\* never placed in the upper-memory area between 640KB and 1MB.
C12_HighAboveExtmem ==
    (Attached /\ dev.high_mapping.reg) =>
        /\ cfg.AT
        /\ dev.high_mapping.size > 0
        /\ dev.high_mapping.base >= RAM_EXTMEM

----------------------------------------------------------------------------
(* C13: the conventional extension.                                         *)

\* the bytes of contiguous RAM there are to place when attach starts
RamLength == RamLengthKB * 1024

\* where the conventional extension ends according to the claim
LowEnd == Min(RAM_TOPMEM, dev.start_addr + RamLength)

\* the remap window is the one this board registered
OwnRemap == ram_remapped_mapping.reg /\ ram_remapped_mapping.dev = dev.inst

\* the bytes the remap step took
RemapBytes == IF OwnRemap THEN RAM_UMAMEM ELSE 0

\* C13: with 0 < start_addr < 640KB the conventional extension is exactly
\* [start_addr, min(640KB, start_addr + remaining)), backed by the first
\* bytes of ram (an empty range registers nothing); the steps that follow
\* see the cursor and the remaining bytes moved by the region's size.  With
\* start_addr = 0 no conventional, remap or extended region is registered.
C13_ConventionalExtension ==
    (Attached /\ last.op = "attach") =>
        /\ (dev.start_addr > 0 /\ dev.start_addr < RAM_TOPMEM) =>
             /\ \/ /\ dev.low_mapping.reg
                   /\ dev.low_mapping.base = dev.start_addr
                   /\ dev.low_mapping.base + dev.low_mapping.size = LowEnd
                   /\ dev.low_mapping.size > 0
                   /\ dev.low_mapping.exec = 0
                   /\ dev.low_mapping.enable
                \/ /\ ~dev.low_mapping.reg
                   /\ LowEnd = dev.start_addr
             /\ OwnRemap =>
                  /\ LowEnd = RAM_TOPMEM
                  /\ ram_remapped_mapping.exec = LowEnd - dev.start_addr
             /\ dev.high_mapping.reg =>
                  /\ dev.high_mapping.base = LowEnd + RemapBytes
                  /\ dev.high_mapping.exec =
                         (LowEnd - dev.start_addr) + RemapBytes
                  /\ dev.high_mapping.size =
                         RamLength - (LowEnd - dev.start_addr) - RemapBytes
        /\ dev.start_addr = 0 =>
             /\ ~dev.low_mapping.reg
             /\ ~OwnRemap
             /\ ~dev.high_mapping.reg

\* a board whose RAM ends below 640KB: the extension is cut to the bytes
\* there are
C13_Witness ==
    /\ Attached
    /\ last.op = "attach"
    /\ dev.start_addr > 0
    /\ dev.low_mapping.reg
    /\ dev.low_mapping.base = dev.start_addr
    /\ dev.low_mapping.size = RamLength
    /\ dev.low_mapping.base + dev.low_mapping.size < RAM_TOPMEM

----------------------------------------------------------------------------
(* C14: the shared remap window.                                            *)

\* the cursor and the bytes that remain after the conventional step of the
\* board that attached last
CursorAfterLow == dev.start_addr + Carved("low")
RestAfterLow == RamLength - Carved("low")

\* C14: attach (re)registers the shared remap window if and only if, after
\* the conventional step, the cursor is exactly 640KB and at least 384KB
\* remain; the window then takes the next 384KB of the board's RAM, is owned
\* by the board that attached last and is disabled.  Otherwise the window
\* is left to the board that registered it before, if any.
C14_RemapWindow ==
    (Attached /\ last.op = "attach") =>
        /\ OwnRemap <=>
             (CursorAfterLow = RAM_TOPMEM /\ RestAfterLow >= RAM_UMAMEM)
        /\ OwnRemap =>
             /\ ram_remapped_mapping.size = RAM_UMAMEM
             /\ ram_remapped_mapping.exec = Carved("low")
             /\ ram_remapped_mapping.handler = "ram"
             /\ ~ram_remapped_mapping.enable
        /\ ram_remapped_mapping.reg => ram_remapped_mapping.dev \in 1..dev.inst

\* a second board attached and took the window over from the first
C14_Witness ==
    /\ Attached
    /\ last.op = "attach"
    /\ dev.inst = 2
    /\ OwnRemap
    /\ CursorAfterLow = RAM_TOPMEM
    /\ RestAfterLow >= RAM_UMAMEM
    /\ ram_remapped_mapping.exec = Carved("low")
    /\ ~ram_remapped_mapping.enable

----------------------------------------------------------------------------
(* C15: word handlers.                                                      *)

\* the mappings the attached board registered
OwnIds == {id \in MapIds :
             /\ MapOf(dev, ram_remapped_mapping, id).reg
             /\ MapOf(dev, ram_remapped_mapping, id).dev = dev.inst}

\* C15: a region registered at attach has word-width handlers only if the
\* board's wide flag is set; a host without an AT bus clears the flag
\* first, so there no region has word handlers.
C15_WordOnlyIfWide ==
    (Attached /\ last.op = "attach") =>
        \A id \in OwnIds :
            MapOf(dev, ram_remapped_mapping, id).word =>
                (FLAG_WIDE \in dev.flags /\ cfg.AT)

----------------------------------------------------------------------------
(* C16: detach.                                                             *)

\* the I/O ports of the board's viewport registers
OwnPorts ==
    IF FLAG_EMS \in dev.flags
    THEN {U16(dev.base_addr + EMS_PGSIZE * i + j) :
             i \in Viewports, j \in {0, 1}}
    ELSE {}

\* C16: after detach nothing the board registered remains: its port
\* handlers are unregistered and so is every mapping it registered (the
\* remap window too if the board owns it), so that no enabled mapping leads
\* to the released buffer.
C16_DetachUnregisters ==
    phase = "closed" =>
        /\ io_handlers \cap OwnPorts = {}
        /\ OwnIds = {}

----------------------------------------------------------------------------
(* C17: the page frame register.                                            *)

\* the last operation wrote val to the page frame register of viewport i
FrameWritten(i, val) ==
    /\ last.op = "ems_write"
    /\ PortReg(dev, last.port) = 1
    /\ PortPage(last.port) = i
    /\ last.val = val

\* the step is a write to one of the board's registers
RegisterWriteStep == last'.op = "ems_write" /\ ops' = ops + 1

\* C17: a write of v to the page frame register of viewport i stores v in
\* the viewport's frame byte, sets the configured flag iff v is nonzero (a
\* zero write does not set it, no register write clears it) and changes no
\* viewport's page, enabled flag, page pointer or window: it never disables
\* an enabled viewport.
C17_FrameConfigWrite ==
    [][RegisterWriteStep =>
          /\ (FLAG_CONFIG \in dev.flags) => (FLAG_CONFIG \in dev'.flags)
          /\ PortReg(dev, last'.port) = 1 =>
               /\ dev'.ems[PortPage(last'.port)].frame = last'.val
               /\ (FLAG_CONFIG \in dev'.flags) <=>
                      (FLAG_CONFIG \in dev.flags \/ last'.val # 0)
               /\ dev'.flags \ {FLAG_CONFIG} = dev.flags \ {FLAG_CONFIG}
               /\ \A j \in Viewports :
                    /\ dev'.ems[j].page = dev.ems[j].page
                    /\ dev'.ems[j].enabled = dev.ems[j].enabled
                    /\ dev'.ems[j].addr = dev.ems[j].addr
                    /\ dev'.ems[j].mapping = dev.ems[j].mapping
                    /\ j # PortPage(last'.port) =>
                           dev'.ems[j].frame = dev.ems[j].frame
          ]_vars

\* a zero was written to the frame register of an enabled viewport of a
\* configured board, and the window is still enabled
C17_Witness ==
    /\ \E i \in Viewports :
         /\ FrameWritten(i, 0)
         /\ dev.ems[i].frame = 0
         /\ last.pre_enable
         /\ dev.ems[i].mapping.enable
         /\ dev.ems[i].enabled # 0
    /\ Configured

----------------------------------------------------------------------------
(* C18: an enabled window.                                                  *)

\* C18: whenever the window of a viewport is enabled, the board is
\* configured, the viewport's enabled flag is set, its page is below
\* ems_pages, and its page pointer and the window's backing pointer are both
\* ems_start + page * 16384; so on an unconfigured board every window is
\* disabled.
C18_EnabledWindow ==
    Attached =>
        /\ \A i \in Viewports :
             dev.ems[i].mapping.enable =>
                 /\ Configured
                 /\ dev.ems[i].enabled # 0
                 /\ dev.ems[i].page < dev.ems_pages
                 /\ dev.ems[i].addr = dev.ems_start + dev.ems[i].page * 16384
                 /\ dev.ems[i].mapping.exec = dev.ems[i].addr
        /\ ~Configured => \A i \in Viewports : ~dev.ems[i].mapping.enable

\* a viewport whose window was enabled was switched to page 5, and its
\* window is enabled on the new page
C18_Witness ==
    /\ Attached
    /\ \E i \in Viewports :
         /\ PageSelectWritten(i, 133)
         /\ last.pre_enable
         /\ dev.ems[i].mapping.enable
         /\ dev.ems[i].page = 5
         /\ dev.ems[i].mapping.exec = dev.ems_start + 5 * 16384

----------------------------------------------------------------------------
(* C19: data through the viewports.                                         *)

EmsIds == {EmsMapId(i) : i \in Viewports}

\* the viewport whose window a mapping name stands for
ViewportOf(id) == CHOOSE i \in Viewports : EmsMapId(i) = id

\* the offset of page p, byte o, from dev->ram
PageByte(p, o) == dev.ems_start + p * 16384 + o

\* the offset lies inside the EMS pool, and the pool inside ram
InPool(off) ==
    /\ off >= dev.ems_start
    /\ off < dev.ems_start + dev.ems_pages * 16384
    /\ InBuffer(dev, off)

\* C19: a byte access at offset o of an enabled viewport whose page is p
\* touches exactly ram[ems_start + p*16384 + o], inside the EMS pool, and a
\* load returns the value most recently stored at offset o of page p
\* through any viewport (0 if none was): the byte ram holds there, which is
\* the value of an immediately preceding store to the same page and offset
\* through whichever viewport, and which no store through a plain region
\* changes.
C19_BankSwitchedData ==
    /\ (last.op \in {"readb", "writeb"} /\ last.map \in EmsIds) =>
         LET i == ViewportOf(last.map)
             p == dev.ems[i].page
             o == last.addr - dev.ems[i].mapping.base
         IN  /\ o >= 0 /\ o < 16384
             /\ last.off = PageByte(p, o)
             /\ InPool(last.off)
             /\ last.op = "readb" =>
                  /\ last.ret = RamAt(ram, last.off)
                  /\ ram = <<>> => last.ret = 0
                  /\ (last.pw_map \in EmsIds
                      /\ dev.ems[ViewportOf(last.pw_map)].page = p
                      /\ last.pw_addr
                           - dev.ems[ViewportOf(last.pw_map)].mapping.base = o)
                     => last.ret = last.pw_val
    /\ (last.op = "writeb" /\ last.map \in PlainIds /\ ~last.oob) =>
         ~InPool(last.off)

----------------------------------------------------------------------------
(* C20: changing the page of an enabled viewport.                           *)

\* the last operation was a page-select write with bit 7 set and a page
\* that exists, to viewport i of a configured board, whose window was
\* enabled
RebindWritten(i) ==
    /\ last.op = "ems_write"
    /\ PortReg(dev, last.port) = 0
    /\ PortPage(last.port) = i
    /\ And80(last.val) # 0
    /\ And7f(last.val) < dev.ems_pages
    /\ Configured
    /\ last.pre_enable

\* C20: a page-select write with bit 7 set and a valid page to a viewport
\* that is already enabled on a configured board rebinds the window's
\* backing pointer to the new page and then enables the window, and never
\* disables it: the window is enabled before, during and after the write.
C20_RebindWithoutPulse ==
    Attached =>
        \A i \in Viewports :
            RebindWritten(i) =>
                /\ last.calls = <<"set_exec", "enable">>
                /\ \A n \in 1..Len(last.calls) : last.calls[n] # "disable"
                /\ dev.ems[i].mapping.enable
                /\ dev.ems[i].mapping.exec = PageByte(And7f(last.val), 0)

\* viewport 0, whose window was enabled, was written 0x85: the window was
\* rebound to page 5 and enabled, with no disable
C20_Witness ==
    /\ Attached
    /\ RebindWritten(0)
    /\ last.val = 133
    /\ last.calls = <<"set_exec", "enable">>
    /\ dev.ems[0].mapping.enable
    /\ dev.ems[0].mapping.exec = PageByte(5, 0)

----------------------------------------------------------------------------
(* C21: the viewports are independent.                                      *)

\* the port of register off of viewport i, as the board's ports are laid out
RegisterPort(i, off) == (dev.base_addr + i * 16384 + off) % 65536

\* the viewport whose register pair holds the port
ViewportOfPort(port) ==
    CHOOSE i \in Viewports : \E off \in {0, 1} : port = RegisterPort(i, off)

\* every port of the board decodes to its viewport and its register
PortsDecoded ==
    Attached =>
        /\ FLAG_EMS \in dev.flags =>
             \A i \in Viewports : \A off \in {0, 1} :
                 /\ RegisterPort(i, off) \in io_handlers
                 /\ PortPage(RegisterPort(i, off)) = i
                 /\ PortPage(RegisterPort(i, off)) = RegisterPort(i, off) \div 16384
                 /\ PortReg(dev, RegisterPort(i, off)) = off
        /\ \A port \in io_handlers :
             \E i \in Viewports : \E off \in {0, 1} :
                 port = RegisterPort(i, off)

\* a page-select write leaves everything but the viewport of its port alone
PageSelectLocal ==
    (RegisterWriteStep /\ PortReg(dev, last'.port) = 0) =>
        LET i == ViewportOfPort(last'.port)
        IN  /\ dev'.ems[i].page = And7f(last'.val)
            /\ dev'.ems[i].frame = dev.ems[i].frame
            /\ \A j \in Viewports \ {i} : dev'.ems[j] = dev.ems[j]
            /\ [dev' EXCEPT !.ems = dev.ems] = dev
            /\ ram' = ram
            /\ ram_remapped_mapping' = ram_remapped_mapping
            /\ io_handlers' = io_handlers

\* C21: a register access at port (base_port + i*16384 + off) mod 65536,
\* off in {0, 1}, is decoded as viewport i = floor(port / 16384) and
\* register off, and a page-select write to viewport i changes only
\* viewport i's page, enabled flag, page pointer and window: the registers
\* and windows of every other viewport, the configured flag and the RAM
\* contents stay as they were.
C21_ViewportsIndependent == [](PortsDecoded) /\ [][PageSelectLocal]_vars

\* viewport 2 was switched to page 5 while viewport 0 was enabled on page
\* 0: both windows are enabled, each on its own page
C21_Witness ==
    /\ Attached
    /\ PageSelectWritten(2, 133)
    /\ last.port = RegisterPort(2, 0)
    /\ dev.ems[2].mapping.enable
    /\ dev.ems[2].page = 5
    /\ dev.ems[0].mapping.enable
    /\ dev.ems[0].page = 0
    /\ dev.ems[0].mapping.exec = PageByte(0, 0)

============================================================================
